---- MODULE Spec2Model ----
(***************************************************************************)
(* kcylon: a kernel module that sweeps one lit LED back and forth over 10  *)
(* GPIO pins from a kthread (cylon), with the sweep delay derived from a   *)
(* shared counter (button_level) that two button interrupt handlers        *)
(* change.  The model follows src/kcylon.c statement by statement: every   *)
(* access to the volatile button_level is a step of its own, because the   *)
(* source takes no lock and the handlers and the worker can run on         *)
(* different processors.                                                   *)
(***************************************************************************)
EXTENDS Integers, FiniteSets, Sequences, TLC

\* ---------------------------------------------------------------- constants
NUM_LEDS == 10
sleep_time == 100
LIMIT == 10
InitialLevel == 0
Half == 2 ^ 16
ENODEV == 19
ENOMEM == 12

Leds == 0 .. (NUM_LEDS - 1)
Irqs == {"left", "right"}

\* An unsigned int of the C source has 32 bits and is kept as the pair of its
\* 16-bit halves << high, low >>, its value being high * 2^16 + low.
\* U32(x) is the conversion of the int x to unsigned int: x modulo 2^32
U32(x) == LET low == x % Half IN << ((x - low) \div Half) % Half, low >>
\* the product of two unsigned ints, modulo 2^32
MulU32(a, b) ==
    LET ll == a[2] * b[2]
        low == ll % Half
        mid == (ll \div Half) + ((a[1] * b[2]) % Half) + ((a[2] * b[1]) % Half)
    IN  << mid % Half, low >>
\* the quotient of two unsigned ints, the divisor not zero
DivU32(a, b) ==
    IF b[1] > a[1] \/ (b[1] = a[1] /\ b[2] > a[2]) THEN << 0, 0 >>
    ELSE IF b[1] = 0 /\ a[1] = 0 THEN << 0, a[2] \div b[2] >>
    ELSE << 0, (a[1] * Half + a[2]) \div (b[1] * Half + b[2]) >>
\* the divisor while line 126 is not being evaluated
NoDivisor == << >>

VARIABLES
    button_level,       \* static volatile int button_level
    pc_h,               \* [Irqs -> position of that interrupt's handler invocation]
    tmp,                \* [Irqs -> value loaded by button_level++ / button_level--]
    irq_registered,     \* [Irqs -> BOOLEAN] request_irq succeeded, free_irq not yet called
    pc_w,               \* position of the kthread running cylon()
    current_led, last_led, rising, thread_sleep_time,   \* locals of cylon()
    divisor,            \* the value of (-10 * button_level) as evaluated on line 126
    leds,               \* [Leds -> BOOLEAN] output value of each LED pin
    should_stop,        \* kthread_should_stop()
    pc_i,               \* position of kcylon_init
    i,                  \* loop index of kcylon_init / kcylon_exit
    ret,                \* ret of kcylon_init (its return value once pc_i = "returned")
    task,               \* "none", "running" or "err" (IS_ERR(task))
    invalid_pin,        \* input: first index with !gpio_is_valid, NUM_LEDS if none
    pc_e,               \* position of kcylon_exit
    freed,              \* set of LED indexes already passed to gpio_free
    \* history variables (observations only, never read by an action's guard)
    lit,                \* index of the LED turned on in the current tick, -1 before
    phase,              \* number of the current tick modulo the sweep period, -1 before
    ev,                 \* handler activity in the current tick: "none", "before", "during"
    firstOp,            \* first gpio_set_value of the worker: "none", "off", "on"
    overlap             \* [Irqs -> BOOLEAN] the invocation overlapped the other handler

vars == << button_level, pc_h, tmp, irq_registered, pc_w, current_led, last_led,
           rising, thread_sleep_time, divisor, leds, should_stop, pc_i, i, ret,
           task, invalid_pin, pc_e, freed, lit, phase, ev, firstOp, overlap >>

handlerVars == << button_level, pc_h, tmp, overlap >>
workerVars == << pc_w, current_led, last_led, rising, thread_sleep_time, divisor >>
lifeVars == << pc_i, i, ret, task, invalid_pin, pc_e, freed, irq_registered, should_stop >>
histVars == << lit, phase, ev, firstOp >>

Other(h) == IF h = "left" THEN "right" ELSE "left"
HandlersIdle == \A h \in Irqs : pc_h[h] = "idle"

\* ---------------------------------------------------------------- Init
Init ==
    /\ button_level = InitialLevel
    /\ pc_h = [h \in Irqs |-> "idle"]
    /\ tmp = [h \in Irqs |-> 0]
    /\ irq_registered = [h \in Irqs |-> FALSE]
    /\ pc_w = "none"
    /\ current_led = 0
    /\ last_led = 0
    /\ rising = TRUE
    /\ thread_sleep_time = U32(sleep_time)
    /\ divisor = NoDivisor
    /\ leds = [l \in Leds |-> FALSE]
    /\ should_stop = FALSE
    /\ pc_i = "pins"
    /\ i = 0
    /\ ret = 0
    /\ task = "none"
    /\ invalid_pin \in 0 .. NUM_LEDS
    /\ pc_e = "unloaded"
    /\ freed = {}
    /\ lit = -1
    /\ phase = -1
    /\ ev = "none"
    /\ firstOp = "none"
    /\ overlap = [h \in Irqs |-> FALSE]

\* ---------------------------------------------------------------- history
\* positions of cylon() inside a tick, split at the reads of button_level
BeforeRead == {"off", "on", "adv", "hi", "lo", "gt"}
AfterRead == {"mul", "lt", "div", "div2", "sleep"}

\* what a step of a handler leaves in the history
Disturb ==
    /\ ev' = IF pc_w \in AfterRead THEN "during"
             ELSE IF pc_w \in BeforeRead THEN "before" ELSE ev
    /\ UNCHANGED << lit, phase, firstOp >>

\* ---------------------------------------------------------------- kcylon_irq_handler
Step(h) == IF h = "left" THEN -1 ELSE 1
\* the bound set one short of the limit
BoundShort(h) == IF h = "left" THEN -LIMIT + 1 ELSE LIMIT - 1
Bound(h) == IF h = "left" THEN -LIMIT ELSE LIMIT
Beyond(h, v) == IF h = "left" THEN v < -LIMIT ELSE v > LIMIT

\* the interrupt fires; button_level-- / button_level++ loads the level
IrqRead(h) ==
    /\ irq_registered[h]
    /\ pc_h[h] = "idle"
    /\ pc_h' = [pc_h EXCEPT ![h] = "write"]
    /\ tmp' = [tmp EXCEPT ![h] = button_level]
    /\ overlap' = [o \in Irqs |-> IF o = h THEN pc_h[Other(h)] # "idle"
                                  ELSE (pc_h[o] # "idle") \/ overlap[o]]
    /\ Disturb
    /\ UNCHANGED << button_level, workerVars, leds, lifeVars >>

\* the store waiting for a lock the worker holds from the top of a tick to
\* the return of its msleep
IrqWriteWaits(h) ==
    /\ pc_w \in {"none", "loop", "done", "oops"}
    /\ pc_h[h] = "write"
    /\ button_level' = tmp[h] + Step(h)
    /\ pc_h' = [pc_h EXCEPT ![h] = "check"]
    /\ Disturb
    /\ UNCHANGED << tmp, overlap, workerVars, leds, lifeVars >>

\* button_level-- / button_level++ stores the changed level
IrqWrite(h) ==
    /\ pc_h[h] = "write"
    /\ button_level' = tmp[h] + Step(h)
    /\ pc_h' = [pc_h EXCEPT ![h] = "check"]
    /\ Disturb
    /\ UNCHANGED << tmp, overlap, workerVars, leds, lifeVars >>

\* if (button_level < -10) / if (button_level > 10)
IrqCheck(h) ==
    /\ pc_h[h] = "check"
    /\ pc_h' = [pc_h EXCEPT ![h] = IF Beyond(h, button_level) THEN "clamp" ELSE "ret"]
    /\ Disturb
    /\ UNCHANGED << button_level, tmp, overlap, workerVars, leds, lifeVars >>

\* the handler turning the sweep round when the level reaches a limit
IrqClampTurnsSweep(h) ==
    /\ pc_h[h] = "clamp"
    /\ button_level' = Bound(h)
    /\ rising' = ~rising
    /\ pc_h' = [pc_h EXCEPT ![h] = "ret"]
    /\ Disturb
    /\ UNCHANGED << tmp, overlap, pc_w, current_led, last_led, thread_sleep_time,
                    divisor, leds, lifeVars >>

\* button_level = -10 / button_level = 10
IrqClamp(h) ==
    /\ pc_h[h] = "clamp"
    /\ button_level' = Bound(h)
    /\ pc_h' = [pc_h EXCEPT ![h] = "ret"]
    /\ Disturb
    /\ UNCHANGED << tmp, overlap, workerVars, leds, lifeVars >>

\* printk and return IRQ_HANDLED
IrqReturn(h) ==
    /\ pc_h[h] = "ret"
    /\ pc_h' = [pc_h EXCEPT ![h] = "idle"]
    /\ tmp' = [tmp EXCEPT ![h] = 0]
    /\ overlap' = [overlap EXCEPT ![h] = FALSE]
    /\ Disturb
    /\ UNCHANGED << button_level, workerVars, leds, lifeVars >>

kcylon_irq_handler(h) ==
    \/ IrqRead(h)
    \/ IrqWrite(h)
    \/ IrqCheck(h)
    \/ IrqClamp(h)
    \/ IrqReturn(h)

\* ---------------------------------------------------------------- cylon
Period == 2 * NUM_LEDS

\* the factor 10 left out of the product
DelayMulUnscaled(level) == MulU32(U32(sleep_time), U32(level))
\* sleep_time * 10 * button_level in unsigned int
DelayMul(level) == MulU32(U32(sleep_time * 10), U32(level))
\* (-10 * button_level), converted to unsigned int for the division
Divisor(level) == U32(-10 * level)
\* sleep_time / divisor
DelayDiv(d) == DivU32(U32(sleep_time), d)
\* results a division by zero can leave when it does not kill the thread
DivZeroResults == {U32(0), U32(-1)}

\* the delay of lines 123-128 for one value of the level
Delay(level) ==
    IF level > 0 THEN DelayMul(level)
    ELSE IF level < 0 THEN DelayDiv(Divisor(level))
    ELSE U32(sleep_time)

\* the load hoisted out of the loop: the level of the thread's start
LevelHoisted == InitialLevel
\* a load of the volatile button_level by the kthread: the value in memory now
LevelRead == button_level

\* the loop entered without looking at the stop flag
CylonLoopForever ==
    /\ pc_w = "loop"
    /\ pc_w' = "off"
    /\ ev' = IF HandlersIdle THEN "none" ELSE "before"
    /\ UNCHANGED << current_led, last_led, rising, thread_sleep_time, divisor,
                    handlerVars, leds, lifeVars, lit, phase, firstOp >>

\* while (!kthread_should_stop())
CylonLoop ==
    /\ pc_w = "loop"
    /\ IF should_stop
       THEN /\ pc_w' = "done"
            /\ UNCHANGED ev
       ELSE /\ pc_w' = "off"
            /\ ev' = IF HandlersIdle THEN "none" ELSE "before"
    /\ UNCHANGED << current_led, last_led, rising, thread_sleep_time, divisor,
                    handlerVars, leds, lifeVars, lit, phase, firstOp >>

\* the previous LED left on
CylonOffSkipped ==
    /\ pc_w = "off"
    /\ pc_w' = "on"
    /\ UNCHANGED << current_led, last_led, rising, thread_sleep_time, divisor,
                    handlerVars, leds, lifeVars, histVars >>

\* if (last_led >= 0 && last_led <= 9) gpio_set_value(led_pins[last_led], false)
CylonOff ==
    /\ pc_w = "off"
    /\ pc_w' = "on"
    /\ IF last_led >= 0 /\ last_led <= 9
       THEN /\ leds' = [leds EXCEPT ![last_led] = FALSE]
            /\ firstOp' = IF firstOp = "none" THEN "off" ELSE firstOp
       ELSE UNCHANGED << leds, firstOp >>
    /\ UNCHANGED << current_led, last_led, rising, thread_sleep_time, divisor,
                    handlerVars, lifeVars, lit, phase, ev >>

\* gpio_set_value(led_pins[current_led], true)
CylonOn ==
    /\ pc_w = "on"
    /\ pc_w' = "adv"
    /\ leds' = [leds EXCEPT ![current_led] = TRUE]
    /\ firstOp' = IF firstOp = "none" THEN "on" ELSE firstOp
    /\ lit' = current_led
    /\ phase' = (phase + 1) % Period
    /\ UNCHANGED << current_led, last_led, rising, thread_sleep_time, divisor,
                    handlerVars, lifeVars, ev >>

\* last_led = current_led++ / last_led = current_led--
CylonAdvance ==
    /\ pc_w = "adv"
    /\ pc_w' = "hi"
    /\ last_led' = current_led
    /\ current_led' = IF rising THEN current_led + 1 ELSE current_led - 1
    /\ UNCHANGED << rising, thread_sleep_time, divisor,
                    handlerVars, leds, lifeVars, histVars >>

\* the sweep turned round without repeating the last index
CylonClampHighNoRepeat ==
    /\ pc_w = "hi"
    /\ pc_w' = "lo"
    /\ IF current_led > 9
       THEN current_led' = 8 /\ rising' = FALSE
       ELSE UNCHANGED << current_led, rising >>
    /\ UNCHANGED << last_led, thread_sleep_time, divisor,
                    handlerVars, leds, lifeVars, histVars >>

\* if (current_led > 9) { current_led = 9; rising = 0; }
CylonClampHigh ==
    /\ pc_w = "hi"
    /\ pc_w' = "lo"
    /\ IF current_led > 9
       THEN current_led' = 9 /\ rising' = FALSE
       ELSE UNCHANGED << current_led, rising >>
    /\ UNCHANGED << last_led, thread_sleep_time, divisor,
                    handlerVars, leds, lifeVars, histVars >>

\* the lower end turned round without the clamp of current_led
CylonClampLowNoClamp ==
    /\ pc_w = "lo"
    /\ pc_w' = "gt"
    /\ IF current_led < 0
       THEN rising' = TRUE
       ELSE UNCHANGED rising
    /\ UNCHANGED << current_led, last_led, thread_sleep_time, divisor,
                    handlerVars, leds, lifeVars, histVars >>

\* if (current_led < 0) { current_led = 0; rising = 1; }
CylonClampLow ==
    /\ pc_w = "lo"
    /\ pc_w' = "gt"
    /\ IF current_led < 0
       THEN current_led' = 0 /\ rising' = TRUE
       ELSE UNCHANGED << current_led, rising >>
    /\ UNCHANGED << last_led, thread_sleep_time, divisor,
                    handlerVars, leds, lifeVars, histVars >>

\* if (button_level > 0): the first load of the level in this tick
CylonTestPositive ==
    /\ pc_w = "gt"
    /\ pc_w' = IF LevelRead > 0 THEN "mul" ELSE "lt"
    /\ ev' = IF HandlersIdle THEN ev ELSE "during"
    /\ UNCHANGED << current_led, last_led, rising, thread_sleep_time, divisor,
                    handlerVars, leds, lifeVars, lit, phase, firstOp >>

\* thread_sleep_time = sleep_time * 10 * button_level: a second load
CylonMultiply ==
    /\ pc_w = "mul"
    /\ pc_w' = "sleep"
    /\ thread_sleep_time' = DelayMul(LevelRead)
    /\ UNCHANGED << current_led, last_led, rising, divisor,
                    handlerVars, leds, lifeVars, histVars >>

\* else if (button_level < 0) ... else thread_sleep_time = sleep_time
CylonTestNegative ==
    /\ pc_w = "lt"
    /\ IF LevelRead < 0
       THEN /\ pc_w' = "div"
            /\ UNCHANGED thread_sleep_time
       ELSE /\ pc_w' = "sleep"
            /\ thread_sleep_time' = U32(sleep_time)
    /\ UNCHANGED << current_led, last_led, rising, divisor,
                    handlerVars, leds, lifeVars, histVars >>

\* (-10 * button_level): a third load, giving the divisor
CylonDivisor ==
    /\ pc_w = "div"
    /\ pc_w' = "div2"
    /\ divisor' = Divisor(LevelRead)
    /\ UNCHANGED << current_led, last_led, rising, thread_sleep_time,
                    handlerVars, leds, lifeVars, histVars >>

\* thread_sleep_time = sleep_time / divisor; dividing by zero is undefined:
\* the thread is killed by the trap, or goes on with some quotient
CylonDivide ==
    /\ pc_w = "div2"
    /\ divisor' = NoDivisor
    /\ IF divisor # U32(0)
       THEN /\ pc_w' = "sleep"
            /\ thread_sleep_time' = DelayDiv(divisor)
       ELSE \/ /\ pc_w' = "oops"
               /\ UNCHANGED thread_sleep_time
            \/ /\ pc_w' = "sleep"
               /\ thread_sleep_time' \in DivZeroResults
    /\ UNCHANGED << current_led, last_led, rising,
                    handlerVars, leds, lifeVars, histVars >>

\* set_current_state(...); msleep(thread_sleep_time) returns.  The value of
\* thread_sleep_time is dead from here on (every path through lines 123-128
\* assigns it before line 130 reads it again), so it is put back to the value
\* of line 102 instead of being carried through the next tick.
CylonSleep ==
    /\ pc_w = "sleep"
    /\ pc_w' = "loop"
    /\ thread_sleep_time' = U32(sleep_time)
    /\ ev' = "none"
    /\ UNCHANGED << current_led, last_led, rising, divisor,
                    handlerVars, leds, lifeVars, lit, phase, firstOp >>

cylon ==
    \/ CylonLoop
    \/ CylonOff
    \/ CylonOn
    \/ CylonAdvance
    \/ CylonClampHigh
    \/ CylonClampLow
    \/ CylonTestPositive
    \/ CylonMultiply
    \/ CylonTestNegative
    \/ CylonDivisor
    \/ CylonDivide
    \/ CylonSleep

\* ---------------------------------------------------------------- kcylon_init
\* the LED loop going on after an invalid pin
InitPinNoCheck ==
    /\ pc_i = "pins"
    /\ leds' = [leds EXCEPT ![i] = FALSE]
    /\ i' = i + 1
    /\ pc_i' = IF i + 1 < NUM_LEDS THEN "pins" ELSE "irq_left"
    /\ UNCHANGED << ret, task, invalid_pin, pc_e, freed, irq_registered, should_stop,
                    handlerVars, workerVars, histVars >>

\* one iteration of the LED loop: an invalid pin returns -ENODEV
InitPin ==
    /\ pc_i = "pins"
    /\ IF i = invalid_pin
       THEN /\ ret' = -ENODEV
            /\ pc_i' = "returned"
            /\ UNCHANGED << i, leds >>
       ELSE /\ leds' = [leds EXCEPT ![i] = FALSE]
            /\ i' = i + 1
            /\ pc_i' = IF i + 1 < NUM_LEDS THEN "pins" ELSE "irq_left"
            /\ UNCHANGED ret
    /\ UNCHANGED << task, invalid_pin, pc_e, freed, irq_registered, should_stop,
                    handlerVars, workerVars, histVars >>

\* request_irq for one button; a failure only sets ret = -1
InitIrq(h) ==
    /\ pc_i = (IF h = "left" THEN "irq_left" ELSE "irq_right")
    /\ pc_i' = (IF h = "left" THEN "irq_right" ELSE "kthread")
    /\ \E ok \in BOOLEAN :
          IF ok
          THEN /\ irq_registered' = [irq_registered EXCEPT ![h] = TRUE]
               /\ UNCHANGED ret
          ELSE /\ ret' = -1
               /\ UNCHANGED irq_registered
    /\ UNCHANGED << i, task, invalid_pin, pc_e, freed, should_stop,
                    handlerVars, workerVars, leds, histVars >>

\* task = kthread_run(cylon, ...); a failure sets ret = PTR_ERR(task)
InitThread ==
    /\ pc_i = "kthread"
    /\ pc_i' = "return"
    /\ \E ok \in BOOLEAN :
          IF ok
          THEN /\ task' = "running"
               /\ pc_w' = "loop"
               /\ UNCHANGED ret
          ELSE /\ task' = "err"
               /\ ret' = -ENOMEM
               /\ UNCHANGED pc_w
    /\ UNCHANGED << i, invalid_pin, pc_e, freed, irq_registered, should_stop,
                    current_led, last_led, rising, thread_sleep_time, divisor,
                    handlerVars, leds, histVars >>

\* return ret
InitReturn ==
    /\ pc_i = "return"
    /\ pc_i' = "returned"
    /\ UNCHANGED << i, ret, task, invalid_pin, pc_e, freed, irq_registered,
                    should_stop, handlerVars, workerVars, leds, histVars >>

kcylon_init ==
    \/ InitPin
    \/ InitIrq("left")
    \/ InitIrq("right")
    \/ InitThread
    \/ InitReturn

\* ---------------------------------------------------------------- kcylon_exit
\* kthread_stop returning without waiting for the thread
JoinedAtOnce == TRUE
\* kthread_stop returns once the thread has exited
Joined == pc_w \in {"done", "oops"}

\* the module is unloaded only if it was loaded: kcylon_init returned 0.
\* kthread_stop(task) sets the stop flag
ExitStop ==
    /\ pc_i = "returned"
    /\ ret = 0
    /\ pc_e = "unloaded"
    /\ pc_e' = "join"
    /\ should_stop' = TRUE
    /\ UNCHANGED << pc_i, i, ret, task, invalid_pin, freed, irq_registered,
                    handlerVars, workerVars, leds, histVars >>

\* kthread_stop(task) waits for the thread, then the LED loop starts
ExitJoin ==
    /\ pc_e = "join"
    /\ Joined
    /\ pc_e' = "leds"
    /\ i' = 0
    /\ UNCHANGED << pc_i, ret, task, invalid_pin, freed, irq_registered,
                    should_stop, handlerVars, workerVars, leds, histVars >>

\* gpio_set_value(led_pins[i], 0); gpio_unexport; gpio_free
ExitLed ==
    /\ pc_e = "leds"
    /\ leds' = [leds EXCEPT ![i] = FALSE]
    /\ freed' = freed \cup {i}
    /\ i' = i + 1
    /\ pc_e' = IF i + 1 < NUM_LEDS THEN "leds" ELSE "free_left"
    /\ UNCHANGED << pc_i, ret, task, invalid_pin, irq_registered, should_stop,
                    handlerVars, workerVars, histVars >>

\* free_irq for one button: returns once no invocation of it is running
ExitFreeIrq(h) ==
    /\ pc_e = (IF h = "left" THEN "free_left" ELSE "free_right")
    /\ pc_h[h] = "idle"
    /\ irq_registered' = [irq_registered EXCEPT ![h] = FALSE]
    /\ pc_e' = (IF h = "left" THEN "free_right" ELSE "done")
    /\ UNCHANGED << pc_i, i, ret, task, invalid_pin, freed, should_stop,
                    handlerVars, workerVars, leds, histVars >>

kcylon_exit ==
    \/ ExitStop
    \/ ExitJoin
    \/ ExitLed
    \/ ExitFreeIrq("left")
    \/ ExitFreeIrq("right")

\* ---------------------------------------------------------------- specification
\* Both button interrupts are delivered to one processor, which runs a handler
\* with interrupts off: an invocation starts only while no other is running.
\* The kthread runs on any processor, so its steps interleave with a handler's.
IrqEnter(h) == pc_h[Other(h)] = "idle" /\ IrqRead(h)
Serial(h) ==
    \/ IrqEnter(h)
    \/ IrqWrite(h)
    \/ IrqCheck(h)
    \/ IrqClamp(h)
    \/ IrqReturn(h)

Next ==
    \/ kcylon_init
    \/ cylon
    \/ Serial("left")
    \/ Serial("right")
    \/ kcylon_exit

Spec == Init /\ [][Next]_vars

\* Two processors take the button interrupts while kcylon_init has registered
\* the handlers and not yet created the thread: there the two handlers run at
\* the same time, and an invocation started there may still be running when
\* the thread starts.  From then on the interrupts are delivered one at a time.
IrqEnterAny(h) == (pc_h[Other(h)] = "idle" \/ pc_w = "none") /\ IrqRead(h)
Concurrent(h) ==
    \/ IrqEnterAny(h)
    \/ IrqWrite(h)
    \/ IrqCheck(h)
    \/ IrqClamp(h)
    \/ IrqReturn(h)

NextSMP ==
    \/ kcylon_init
    \/ cylon
    \/ Concurrent("left")
    \/ Concurrent("right")
    \/ kcylon_exit

SpecSMP == Init /\ [][NextSMP]_vars

\* The scheduler runs the kthread, the module's init and exit paths and a
\* started handler invocation again and again, and msleep returns after its
\* finite delay; whether a button is ever pressed is left open.
FairSpec ==
    /\ Spec
    /\ WF_vars(cylon)
    /\ WF_vars(kcylon_init)
    /\ WF_vars(kcylon_exit)
    /\ \A h \in Irqs : WF_vars(IrqWrite(h) \/ IrqCheck(h) \/ IrqClamp(h) \/ IrqReturn(h))

\* ---------------------------------------------------------------- properties
LedsOn == {l \in Leds : leds[l]}
Min(a, b) == IF a < b THEN a ELSE b
Max(a, b) == IF a > b THEN a ELSE b
\* the index lit on tick n (counted from 0, modulo the period) of the wave
\* 0,1,...,9,9,8,...,1,0
Triangle(n) == IF n < NUM_LEDS THEN n ELSE Period - 1 - n

\* C1: the rate level lies in [-10, 10] in every reachable state, the states
\* inside a handler invocation included.
C1_LevelInRange == button_level \in -LIMIT .. LIMIT

\* C2: the delay a tick passes to msleep is the delay function applied to one
\* value v the level held between two handler invocations while the tick read
\* it: v is the level itself when no handler step fell into the tick's reads,
\* and in any case a value in [-10, 10].
C2_DelayOfOneLevel ==
    pc_w = "sleep" =>
        IF ev # "during" THEN thread_sleep_time = Delay(button_level)
        ELSE \E v \in -LIMIT .. LIMIT : thread_sleep_time = Delay(v)

\* C3: the divisor (-10 * button_level), as evaluated at the division of the
\* negative-level branch, is never zero.
C3_DivisorNotZero == pc_w = "div2" => divisor # U32(0)

\* C4 as stated: with no event during the tick the delay is base_sleep for
\* level 0, base_sleep * level for level > 0, base_sleep / |level| for level < 0.
C4_DelayAsStated ==
    (pc_w = "sleep" /\ ev = "none") =>
        thread_sleep_time =
            U32(IF button_level = 0 THEN sleep_time
                ELSE IF button_level > 0 THEN sleep_time * button_level
                ELSE sleep_time \div (-button_level))

\* C4 as amended: with no event during the tick the delay is sleep_time for
\* level 0, sleep_time * 10 * level for level > 0 and sleep_time / (10 * |level|)
\* for level < 0 (level 3 gives 3000).
C4_DelayAsCoded ==
    (pc_w = "sleep" /\ ev = "none") =>
        thread_sleep_time =
            U32(IF button_level = 0 THEN sleep_time
                ELSE IF button_level > 0 THEN sleep_time * 10 * button_level
                ELSE sleep_time \div (10 * (-button_level)))
C4_Witness ==
    /\ pc_w = "sleep"
    /\ ev = "none"
    /\ button_level = 3
    /\ thread_sleep_time = U32(3000)

\* C5: whatever the buttons do, the index lit on successive ticks follows the
\* triangle wave 0,1,...,9,9,8,...,1,0,0,1,...: the boundary indexes are lit on
\* two consecutive ticks and every other step moves the index by one.
C5_TriangleWave ==
    /\ (phase = -1) = (lit = -1)
    /\ phase >= 0 => lit = Triangle(phase)
C5_Witness == phase = NUM_LEDS /\ lit = NUM_LEDS - 1 /\ button_level # 0

\* C6: at most one LED is on in every state, and when a tick reaches its sleep
\* exactly the LED lit in this tick is on.
C6_OneLedOn ==
    /\ Cardinality(LedsOn) <= 1
    /\ pc_w = "sleep" => LedsOn = {lit}
C6_Witness == pc_w = "sleep" /\ lit = 5 /\ LedsOn = {5}

\* C7: an invocation that overlaps no other sets the level to
\* min(level + 1, 10) for the right button and max(level - 1, -10) for the
\* left one, level being the level at its start; at a bound it is a no-op.
C7_ClampPolicy ==
    \A h \in Irqs :
        (pc_h[h] = "ret" /\ ~overlap[h]) =>
            button_level = IF h = "right" THEN Min(tmp[h] + 1, 10)
                           ELSE Max(tmp[h] - 1, -10)
C7_Witness == pc_h["right"] = "ret" /\ tmp["right"] = 10 /\ button_level = 10

\* C8: the stop flag is looked at only at the top of the loop: the thread
\* leaves the loop from there and nowhere else, the first check after a stop
\* request starts no tick, and a thread stopped before its first tick has
\* touched no LED.
C8_StopAtLoopTop ==
    /\ [][/\ (pc_w' = "done" /\ pc_w # "done") => (pc_w = "loop" /\ should_stop)
          /\ (should_stop /\ pc_w = "loop") => pc_w' \in {"loop", "done"}
          /\ pc_w = "done" => (pc_w' = "done" /\ phase' = phase /\ firstOp' = firstOp)]_vars
    /\ []((pc_w = "done" /\ phase = -1) => (firstOp = "none" /\ LedsOn = {}))
C8_Witness == pc_w = "done" /\ should_stop /\ phase = 3 /\ firstOp # "none"

\* C9: after kcylon_exit has returned all 10 LEDs are off, and no LED that the
\* exit path has driven off and freed changes its value again.
C9_AllOffAfterExit ==
    /\ [](pc_e = "done" => LedsOn = {})
    /\ [][\A l \in freed : leds'[l] = leds[l]]_vars
C9_Witness == pc_e = "done" /\ freed = Leds /\ phase >= 0 /\ LedsOn = {}

\* C10: when no handler step falls between a tick's first read of the level
\* and its sleep, the delay is the delay of the level as the handlers left it.
C10_UpdatedLevelUsed ==
    (pc_w = "sleep" /\ ev # "during") => thread_sleep_time = Delay(button_level)
C10_Witness ==
    /\ pc_w = "sleep"
    /\ ev = "before"
    /\ button_level = 2
    /\ thread_sleep_time = U32(2000)

\* C11: with an invalid LED pin kcylon_init returns -ENODEV, and it does so
\* before any interrupt handler is registered and before the kthread is
\* created: the worker never runs a tick.
C11_InvalidPinStopsInit ==
    invalid_pin \in Leds =>
        /\ pc_w = "none" /\ task = "none" /\ phase = -1 /\ firstOp = "none"
        /\ \A h \in Irqs : ~irq_registered[h] /\ pc_h[h] = "idle"
        /\ pc_i \in {"pins", "returned"}
        /\ pc_i = "returned" => ret = -ENODEV
C11_Witness == pc_i = "returned" /\ ret = -ENODEV /\ invalid_pin = 3 /\ i = 3

\* C12: on the first tick no LED is turned off: the first gpio_set_value of
\* the worker turns LED 0 on.
C12_FirstOpTurnsOn == firstOp \in {"none", "on"}

\* C13: the delay passed to msleep is at least 1 ms in every tick, whatever
\* the interleaving of button events with the delay computation.
C13_DelayAtLeastOne == pc_w = "sleep" => thread_sleep_time # U32(0)

\* C15: a step of a handler leaves current_led, last_led, rising and every LED
\* unchanged, a step of the worker leaves the rate level unchanged; the level
\* changes only in a handler and the sweep state only in the worker.
C15_Frame ==
    [][/\ pc_h' # pc_h => UNCHANGED << current_led, last_led, rising, leds >>
       /\ pc_w' # pc_w => button_level' = button_level
       /\ button_level' # button_level => pc_h' # pc_h
       /\ << current_led, last_led, rising >>' # << current_led, last_led, rising >>
              => pc_w' # pc_w]_vars
C15_Witness == button_level = 10 /\ pc_h["right"] = "ret" /\ phase = 12 /\ ~rising

\* the positions of a handler invocation, in the order of the source
Rank(p) ==
    CASE p = "idle" -> 0 [] p = "write" -> 1 [] p = "check" -> 2
      [] p = "clamp" -> 3 [] p = "ret" -> 4

\* C16: the worker never waits except in msleep, and a handler invocation,
\* whatever the position of the worker, can always take its next step and
\* moves forward at every step, so it returns after at most 5 steps; neither
\* is ever blocked by the other.
C16_NeverBlocked ==
    /\ [](\A h \in Irqs :
            pc_h[h] # "idle" =>
                ENABLED (IrqWrite(h) \/ IrqCheck(h) \/ IrqClamp(h) \/ IrqReturn(h)))
    /\ [](pc_w \notin {"none", "done", "oops"} => ENABLED cylon)
    /\ [][\A h \in Irqs :
            pc_h'[h] # pc_h[h] =>
                \/ Rank(pc_h'[h]) > Rank(pc_h[h])
                \/ pc_h[h] = "ret" /\ pc_h'[h] = "idle"]_vars
C16_Witness == pc_h["left"] = "write" /\ pc_w = "on" /\ phase = 4

\* C17: when kcylon_init returns a non-zero value no worker thread is left
\* running and no interrupt handler is left registered.
C17_NothingLeftOnFailure ==
    (pc_i = "returned" /\ ret # 0) =>
        /\ pc_w \in {"none", "done", "oops"}
        /\ \A h \in Irqs : ~irq_registered[h]

\* C19: the index of every access to led_pins is in [0, 9]: last_led at the
\* turn-off, whose guard is therefore always true, and current_led at the
\* turn-on; current_led leaves [0, 9] only for 10 or -1 between the advance
\* and the clamps.
C19_IndexInRange ==
    /\ last_led \in Leds
    /\ pc_w = "on" => current_led \in Leds
    /\ current_led \in (-1) .. NUM_LEDS
    /\ current_led = NUM_LEDS => pc_w = "hi"
    /\ current_led = -1 => pc_w \in {"hi", "lo"}
C19_Witness == pc_w = "lo" /\ current_led = -1 /\ last_led = 0 /\ phase = Period - 1

\* C14: under fair scheduling, once kthread_stop has been called the worker
\* eventually leaves its loop and returns; kthread_stop returns only after
\* the worker has exited, so the LED loop of kcylon_exit never runs while the
\* worker is in a tick.
C14_StopEndsWorker ==
    /\ should_stop ~> pc_w = "done"
    /\ [](pc_e \in {"leds", "free_left", "free_right", "done"} => Joined)

\* the level after a left-button and a right-button event applied to the level
\* b one after the other, the left one first / the right one first
LeftThenRight(b) == Min(Max(b - 1, -LIMIT) + 1, LIMIT)
RightThenLeft(b) == Max(Min(b + 1, LIMIT) - 1, -LIMIT)

\* C18: when a left-button and a right-button invocation run at the same time,
\* both having loaded the level b, the level they leave is the one of the two
\* clamped steps applied to b in some order: no update is lost.
C18_NoLostUpdate ==
    (pc_h["left"] = "ret" /\ pc_h["right"] = "ret" /\ tmp["left"] = tmp["right"]) =>
        button_level \in {LeftThenRight(tmp["left"]), RightThenLeft(tmp["left"])}

====
